---- MODULE Spec2Model ----
(***************************************************************************)
(* OMEGA-PRIME agent (omega_prime_agent.py): the ingest / score / persist  *)
(* / notify pipeline as a state machine, and score_item as an operator.    *)
(* A Python str is a sequence of one-character strings.                    *)
(***************************************************************************)
EXTENDS Integers, Sequences, FiniteSets, TLC

VARIABLES
    cfg,        \* NOTIFY of the configuration, with the environment applied
    run,        \* number of process invocations started so far
    pc,         \* "idle" (no process), "feeds" (run_once loop), "entries" (fetch_feed loop)
    feedIdx,    \* index in FEEDS of the feed run_once is at
    todo,       \* entries of feed.entries the loop of fetch_feed has not reached yet
    db,         \* committed rows of table opportunities
    txn,        \* rows inserted on the connection and not committed yet
    csvExists,  \* os.path.exists(CSV_PATH)
    csv,        \* the rows of the CSV file, in file order
    trace,      \* the calls made by the latest iteration of the entry loop
    visited,    \* indices of the feeds fetch_feed was called on in this run
    errlog,     \* "[!] Error fetching" lines the running process has printed: the feed,
                \* where the exception came from, and the entries left unprocessed
    watch,      \* the (feed, link) pair whose history is recorded, or NoWatch
    count,      \* iterations of the entry loop on the watched pair that got past the
                \* SELECT (capped at 2)
    wfail,      \* a database or file call has raised for the watched fingerprint
    title,      \* scorer input
    summary,    \* scorer input
    result      \* <<what score_item returned for (title, summary)>>, or <<>> before the call

vars == <<cfg, run, pc, feedIdx, todo, db, txn, csvExists, csv, trace,
          visited, errlog, watch, count, wfail, title, summary, result>>

----------------------------------------------------------------------------
(* Bounds *)

MaxRuns == 2          \* process invocations
MaxEntries == 2       \* entries in one parsed feed
MaxWords == 2         \* words in a scorer title

----------------------------------------------------------------------------
(* Strings *)

UpperCase == <<"A","B","C","D","E","F","G","H","I","J","K","L","M",
               "N","O","P","Q","R","S","T","U","V","W","X","Y","Z">>
LowerCase == <<"a","b","c","d","e","f","g","h","i","j","k","l","m",
               "n","o","p","q","r","s","t","u","v","w","x","y","z">>

\* str.lower(), one character
LowerChar(c) ==
    IF \E i \in 1..Len(UpperCase) : UpperCase[i] = c
    THEN LowerCase[CHOOSE i \in 1..Len(UpperCase) : UpperCase[i] = c]
    ELSE c

\* str.lower()
Lower(s) == [i \in 1..Len(s) |-> LowerChar(s[i])]

\* str.strip(): leading and trailing blanks removed
RECURSIVE Strip(_)
Strip(s) ==
    IF s = <<>> THEN s
    ELSE IF Head(s) = " " THEN Strip(Tail(s))
    ELSE IF s[Len(s)] = " " THEN Strip(SubSeq(s, 1, Len(s) - 1))
    ELSE s

\* `word in text`
Contains(text, word) ==
    \E i \in 1..(Len(text) - Len(word) + 1) :
        SubSeq(text, i, i + Len(word) - 1) = word

\* sep.join(parts)
RECURSIVE Join(_, _)
Join(parts, sep) ==
    IF parts = <<>> THEN <<>>
    ELSE IF Len(parts) = 1 THEN parts[1]
    ELSE parts[1] \o sep \o Join(Tail(parts), sep)

\* str(n) of a natural number, as f"{val}" formats it
RECURSIVE IntToStr(_)
IntToStr(n) ==
    LET digit == <<"0","1","2","3","4","5","6","7","8","9">>[(n % 10) + 1]
    IN  IF n < 10 THEN <<digit>> ELSE IntToStr(n \div 10) \o <<digit>>

----------------------------------------------------------------------------
(* score_item *)

keywords == <<
    [word |-> <<"a","i","r","d","r","o","p">>,         val |-> 5],
    [word |-> <<"t","e","s","t","n","e","t">>,         val |-> 4],
    [word |-> <<"q","u","e","s","t">>,                 val |-> 3],
    [word |-> <<"r","e","w","a","r","d">>,             val |-> 2],
    [word |-> <<"b","o","u","n","t","y">>,             val |-> 4],
    [word |-> <<"g","r","a","n","t">>,                 val |-> 2],
    [word |-> <<"r","e","t","r","o","d","r","o","p">>, val |-> 5],
    [word |-> <<"c","a","m","p","a","i","g","n">>,     val |-> 2],
    [word |-> <<"e","a","r","n">>,                     val |-> 1] >>

\* variant: the text is not lower-cased
ScoreTextAsGiven(t, s) == t \o <<" ">> \o s

\* text = (title + " " + summary).lower()
ScoreText(t, s) == Lower(t \o <<" ">> \o s)

\* the body of `for word, val in keywords.items()`, from the i-th keyword on
RECURSIVE ScoreLoop(_, _, _)
ScoreLoop(text, i, acc) ==
    IF i > Len(keywords) THEN acc
    ELSE LET word == keywords[i].word
             val  == keywords[i].val
         IN  IF Contains(text, word)
             THEN ScoreLoop(text, i + 1,
                      [score   |-> acc.score + val,
                       tags    |-> Append(acc.tags, word),
                       reasons |-> Append(acc.reasons, word \o <<"+">> \o IntToStr(val))])
             ELSE ScoreLoop(text, i + 1, acc)

score_item(t, s) ==
    LET acc == ScoreLoop(ScoreText(t, s), 1,
                         [score |-> 0, tags |-> <<>>, reasons |-> <<>>])
    IN  [score |-> acc.score, tags |-> acc.tags, reason |-> Join(acc.reasons, <<";">>)]

----------------------------------------------------------------------------
(* Configuration and feeds *)

\* CONFIG["rss_feeds"]: two feed URLs, the first a prefix of the second
FEEDS == << <<"f">>, <<"f","x">> >>

\* entry.get("link", ""): the links a feed's entries can carry
Links == { <<"a">>, <<"x","a">> }

\* the entries feedparser.parse(url) can return in feed.entries, as the feed
\* gives them (before strip()): "Grant" scores 2, "Grant" with "earn" scores 3
Entries == {
    [link |-> <<"a">>,     title |-> <<" ","G","r","a","n","t">>, summary |-> <<>>],
    [link |-> <<"x","a">>, title |-> <<"G","r","a","n","t">>,     summary |-> <<"e","a","r","n"," ">>] }

RECURSIVE SeqsUpTo(_, _)
SeqsUpTo(S, n) ==
    IF n = 0 THEN { <<>> }
    ELSE LET shorter == SeqsUpTo(S, n - 1)
         IN  shorter \cup { Append(q, x) : q \in { z \in shorter : Len(z) = n - 1 }, x \in S }

ParsedFeeds == SeqsUpTo(Entries, MaxEntries)

\* NOTIFY: per channel, enabled and whether each credential resolves (from the
\* environment, else from the file) to a non-empty value
NoNotify ==
    [telegram |-> [enabled |-> FALSE, token |-> FALSE, chat_id |-> FALSE],
     discord  |-> [enabled |-> FALSE, webhook |-> FALSE]]
Configs == {
    NoNotify,
    [telegram |-> [enabled |-> TRUE, token |-> TRUE, chat_id |-> TRUE],
     discord  |-> [enabled |-> TRUE, webhook |-> TRUE]],
    [telegram |-> [enabled |-> TRUE, token |-> TRUE, chat_id |-> TRUE],
     discord  |-> [enabled |-> TRUE, webhook |-> FALSE]],
    [telegram |-> [enabled |-> TRUE, token |-> TRUE, chat_id |-> FALSE],
     discord  |-> [enabled |-> TRUE, webhook |-> TRUE]] }

NotifyThreshold == 3

----------------------------------------------------------------------------
(* Identity *)

\* hashlib.sha256((source + url).encode()).hexdigest(): the digest stands for
\* its input, the plain concatenation of source and url
hash_id(source, url) == source \o url

Fingerprints == { hash_id(FEEDS[f], l) : f \in 1..Len(FEEDS), l \in Links }
Pairs == (1..Len(FEEDS)) \X Links
NoWatch == <<0, <<>>>>

----------------------------------------------------------------------------
(* Storage *)

\* variant: the SELECT sees the committed rows only
VisibleCommitted(committed, open) == committed

\* what SELECT sees on the connection: committed rows and the open transaction
Visible(committed, open) == committed \cup open

\* variant: the SELECT compares the source column
FoundBySource(rows, uid) == \E r \in rows : r.source = uid

\* cur.execute("SELECT id FROM opportunities WHERE id=?"); cur.fetchone()
Found(rows, uid) == \E r \in rows : r.id = uid

\* INSERT OR IGNORE INTO opportunities: a row whose id is present is dropped
InsertOrIgnore(rows, r) == IF \E x \in rows : x.id = r.id THEN rows ELSE rows \cup {r}

\* the item dict fetch_feed builds (published is carried through unchanged
\* and left out), with tags as save_to_db stores them
Scored[e \in Entries] ==
    LET t  == Strip(e.title)
        s  == Strip(e.summary)
        sc == score_item(t, s)
    IN  [title |-> t, summary |-> s, score |-> sc.score, reason |-> sc.reason,
         tags |-> Join(sc.tags, <<",">>)]

Item(uid, url, e, now) ==
    [id |-> uid, source |-> url, title |-> Scored[e].title, url |-> e.link,
     summary |-> Scored[e].summary, score |-> Scored[e].score,
     reason |-> Scored[e].reason, tags |-> Scored[e].tags, fetched_at |-> now]

Header == [kind |-> "header"]
CsvRow(item) == [kind |-> "row", item |-> item]

\* save_to_csv, both writerow calls done: the header goes first into a new file
AppendCsv(exists, file, item) ==
    IF exists THEN Append(file, CsvRow(item))
    ELSE file \o <<Header, CsvRow(item)>>


\* variant: save_to_db without conn.commit()
save_to_db_nocommit(committed, open, item, fail) ==
    IF fail = "execute"
    THEN [db |-> committed, txn |-> open, raised |-> TRUE]
    ELSE [db |-> committed, txn |-> open \cup {item}, raised |-> FALSE]

\* save_to_db(item). fail names the call that raises: "execute" (the INSERT),
\* "commit" (conn.commit(), the transaction staying open) or "rollback"
\* (conn.commit(), SQLite rolling the transaction back)
save_to_db(committed, open, item, fail) ==
    LET inserted == InsertOrIgnore(Visible(committed, open), item) \ committed
    IN  CASE fail = "execute"  -> [db |-> committed, txn |-> open, raised |-> TRUE]
          [] fail = "commit"   -> [db |-> committed, txn |-> inserted, raised |-> TRUE]
          [] fail = "rollback" -> [db |-> committed, txn |-> {}, raised |-> TRUE]
          [] OTHER             -> [db |-> committed \cup inserted, txn |-> {}, raised |-> FALSE]

\* save_to_csv(item). fail names the call that raises: "open" (no file is
\* created) or "write" (open has created the file and nothing reaches it)
save_to_csv(exists, file, item, fail) ==
    CASE fail = "open"  -> [csvExists |-> exists, csv |-> file, raised |-> TRUE]
      [] fail = "write" -> [csvExists |-> TRUE, csv |-> file, raised |-> TRUE]
      [] OTHER          -> [csvExists |-> TRUE, csv |-> AppendCsv(exists, file, item),
                            raised |-> FALSE]

\* variant: the threshold is exclusive
ShouldNotifyAbove(score) == score > NotifyThreshold

\* `if score >= 3` of fetch_feed
ShouldNotify(score) == score >= NotifyThreshold

\* the Telegram block of notify: the calls it makes, and whether requests.post raised
NotifyTelegram(c, fail) ==
    IF c.telegram.enabled /\ c.telegram.token /\ c.telegram.chat_id
    THEN [calls |-> <<"post_telegram">>, raised |-> (fail = "telegram")]
    ELSE [calls |-> <<>>, raised |-> FALSE]

\* the Discord block of notify
NotifyDiscord(c, fail) ==
    IF c.discord.enabled /\ c.discord.webhook
    THEN [calls |-> <<"post_discord">>, raised |-> (fail = "discord")]
    ELSE [calls |-> <<>>, raised |-> FALSE]

\* variant: `elif` for the Discord block
notifyElif(c, fail) ==
    IF NotifyTelegram(c, fail).calls # <<>>
    THEN [calls |-> <<"notify">> \o NotifyTelegram(c, fail).calls,
          raised |-> NotifyTelegram(c, fail).raised]
    ELSE [calls |-> <<"notify">> \o NotifyDiscord(c, fail).calls,
          raised |-> NotifyDiscord(c, fail).raised]

\* notify(item): Telegram first, Discord after it unless Telegram raised
notify(c, fail) ==
    LET tg == NotifyTelegram(c, fail)
        dc == NotifyDiscord(c, fail)
    IN  IF tg.raised THEN [calls |-> <<"notify">> \o tg.calls, raised |-> TRUE]
        ELSE [calls |-> <<"notify">> \o tg.calls \o dc.calls, raised |-> dc.raised]

----------------------------------------------------------------------------
(* fetch_feed: one iteration of `for entry in feed.entries` *)

\* the calls that can raise inside an iteration
FailPoints == {"select", "execute", "commit", "rollback", "open", "write",
               "telegram", "discord"}
StorageFailPoints == {"select", "execute", "commit", "rollback", "open", "write"}

\* what an iteration leaves: the storage, the calls it made (trace) and
\* whether an exception left the loop body (raised)
Outcome(committed, open, exists, file, calls, r) ==
    [db |-> committed, txn |-> open, csvExists |-> exists, csv |-> file,
     trace |-> calls, raised |-> r]

\* variant: save_to_csv in a finally clause, called also when save_to_db raises
BodyCsvAnyway(committed, open, exists, file, found, d, f, sent, n, fail) ==
    IF fail = "select"
    THEN Outcome(committed, open, exists, file, <<"select", "raise">>, TRUE)
    ELSE IF found
    THEN Outcome(committed, open, exists, file, <<"select", "continue">>, FALSE)
    ELSE IF d.raised \/ f.raised
    THEN Outcome(d.db, d.txn, f.csvExists, f.csv,
                 <<"select", "save_to_db", "save_to_csv", "raise">>, TRUE)
    ELSE IF sent /\ n.raised
    THEN Outcome(d.db, d.txn, f.csvExists, f.csv,
                 <<"select", "save_to_db", "save_to_csv">> \o n.calls \o <<"raise">>, TRUE)
    ELSE Outcome(d.db, d.txn, f.csvExists, f.csv,
                 <<"select", "save_to_db", "save_to_csv">>
                     \o (IF sent THEN n.calls ELSE <<>>) \o <<"print">>, FALSE)

\* the body of `for entry in feed.entries`, given what its calls do: found
\* (the SELECT finds the fingerprint), d (save_to_db), f (save_to_csv), sent
\* (the score reaches the threshold) and n (notify). The calls are made in
\* this order, an exception of one call leaving the body before the next.
Body(committed, open, exists, file, found, d, f, sent, n, fail) ==
    IF fail = "select"
    THEN Outcome(committed, open, exists, file, <<"select", "raise">>, TRUE)
    ELSE IF found
    THEN Outcome(committed, open, exists, file, <<"select", "continue">>, FALSE)
    ELSE IF d.raised
    THEN Outcome(d.db, d.txn, exists, file, <<"select", "save_to_db", "raise">>, TRUE)
    ELSE IF f.raised
    THEN Outcome(d.db, d.txn, f.csvExists, f.csv,
                 <<"select", "save_to_db", "save_to_csv", "raise">>, TRUE)
    ELSE IF sent /\ n.raised
    THEN Outcome(d.db, d.txn, f.csvExists, f.csv,
                 <<"select", "save_to_db", "save_to_csv">> \o n.calls \o <<"raise">>, TRUE)
    ELSE Outcome(d.db, d.txn, f.csvExists, f.csv,
                 <<"select", "save_to_db", "save_to_csv">>
                     \o (IF sent THEN n.calls ELSE <<>>) \o <<"print">>, FALSE)

\* one iteration on entry e of feed url
Iteration(c, committed, open, exists, file, e, url, now, fail) ==
    Body(committed, open, exists, file,
         Found(Visible(committed, open), hash_id(url, e.link)),
         save_to_db(committed, open, Item(hash_id(url, e.link), url, e, now), fail),
         save_to_csv(exists, file, Item(hash_id(url, e.link), url, e, now), fail),
         ShouldNotify(Scored[e].score),
         notify(c, fail),
         fail)

\* variant: the except clause sits inside the for loop
AfterRaiseContinue(entries) == Tail(entries)

\* what the except clause of fetch_feed, outside the for loop, leaves of the
\* entries not reached yet: nothing
AfterRaise(entries) == <<>>

Bump(n) == IF n < 2 THEN n + 1 ELSE n

----------------------------------------------------------------------------
(* Actions *)

\* python omega_prime_agent.py: a new process, config loaded, database opened
StartRun ==
    /\ pc = "idle"
    /\ run < MaxRuns
    /\ run' = run + 1
    /\ pc' = "feeds"
    /\ feedIdx' = 1
    /\ todo' = <<>>
    /\ trace' = <<>>
    /\ visited' = <<>>
    /\ errlog' = <<>>
    /\ UNCHANGED <<cfg, db, txn, csvExists, csv, watch, count, wfail, title, summary, result>>

\* fetch_feed(url), feedparser.parse(url) returning the entries
FetchFeed(entries) ==
    /\ pc = "feeds"
    /\ feedIdx <= Len(FEEDS)
    /\ visited' = Append(visited, feedIdx)
    /\ todo' = entries
    /\ trace' = <<>>
    /\ pc' = "entries"
    /\ UNCHANGED <<cfg, run, feedIdx, db, txn, csvExists, csv, errlog, watch, count, wfail,
                   title, summary, result>>

\* variant: no except clause, the exception ends the process
FetchFailsUncaught ==
    /\ pc = "feeds"
    /\ feedIdx <= Len(FEEDS)
    /\ visited' = Append(visited, feedIdx)
    /\ pc' = "idle"
    /\ todo' = <<>>
    /\ trace' = <<>>
    /\ errlog' = <<>>
    /\ txn' = {}
    /\ UNCHANGED <<cfg, run, feedIdx, db, csvExists, csv, watch, count, wfail,
                   title, summary, result>>

\* fetch_feed(url), feedparser.parse(url) raising: caught and printed
FetchFails ==
    /\ pc = "feeds"
    /\ feedIdx <= Len(FEEDS)
    /\ visited' = Append(visited, feedIdx)
    /\ errlog' = Append(errlog, [feed |-> feedIdx, kind |-> "fetch", dropped |-> 0])
    /\ todo' = <<>>
    /\ trace' = <<>>
    /\ pc' = "entries"
    /\ UNCHANGED <<cfg, run, feedIdx, db, txn, csvExists, csv, watch, count, wfail,
                   title, summary, result>>

\* one iteration of the entry loop; an exception leaves the loop for the
\* except clause of fetch_feed, which prints it
ProcessEntry(fail) ==
    /\ pc = "entries"
    /\ todo # <<>>
    /\ LET e   == Head(todo)
           url == FEEDS[feedIdx]
           out == Iteration(cfg, db, txn, csvExists, csv, e, url, run, fail)
       IN  /\ fail = "none" \/ (out.raised /\ fail \in FailPoints)
           /\ db' = out.db
           /\ txn' = out.txn
           /\ csvExists' = out.csvExists
           /\ csv' = out.csv
           /\ trace' = out.trace
           /\ count' = IF watch = <<feedIdx, e.link>> /\ fail # "select"
                       THEN Bump(count) ELSE count
           /\ wfail' = (wfail \/ (/\ out.raised
                                   /\ fail \in StorageFailPoints
                                   /\ watch # NoWatch
                                   /\ hash_id(url, e.link) = hash_id(FEEDS[watch[1]], watch[2])))
           /\ IF out.raised
              THEN /\ todo' = AfterRaise(todo)
                   /\ errlog' = Append(errlog, [feed |-> feedIdx, kind |-> "entry",
                                                dropped |-> Len(todo) - 1])
              ELSE /\ todo' = Tail(todo)
                   /\ UNCHANGED errlog
    /\ UNCHANGED <<cfg, run, pc, feedIdx, visited, watch, title, summary, result>>

\* fetch_feed returns; run_once goes on to the next url of FEEDS
FeedDone ==
    /\ pc = "entries"
    /\ todo = <<>>
    /\ pc' = "feeds"
    /\ feedIdx' = feedIdx + 1
    /\ trace' = <<>>
    /\ UNCHANGED <<cfg, run, todo, db, txn, csvExists, csv, visited, errlog,
                   watch, count, wfail, title, summary, result>>

\* run_once returns and the process exits: an open transaction is lost
EndRun ==
    /\ pc = "feeds"
    /\ feedIdx > Len(FEEDS)
    /\ pc' = "idle"
    /\ txn' = {}
    /\ errlog' = <<>>
    /\ UNCHANGED <<cfg, run, feedIdx, todo, db, csvExists, csv, trace, visited,
                   watch, count, wfail, title, summary, result>>

Init ==
    /\ cfg \in Configs
    /\ run = 0
    /\ pc = "idle"
    /\ feedIdx = 1
    /\ todo = <<>>
    /\ db = {}
    /\ txn = {}
    /\ csvExists = FALSE
    /\ csv = <<>>
    /\ trace = <<>>
    /\ visited = <<>>
    /\ errlog = <<>>
    /\ watch = NoWatch
    /\ count = 0
    /\ wfail = FALSE
    /\ title = <<>>
    /\ summary = <<>>
    /\ result = <<>>

\* the same program with notifications off and one pair's history recorded
InitDedup ==
    /\ cfg = NoNotify
    /\ run = 0
    /\ pc = "idle"
    /\ feedIdx = 1
    /\ todo = <<>>
    /\ db = {}
    /\ txn = {}
    /\ csvExists = FALSE
    /\ csv = <<>>
    /\ trace = <<>>
    /\ visited = <<>>
    /\ errlog = <<>>
    /\ watch \in Pairs
    /\ count = 0
    /\ wfail = FALSE
    /\ title = <<>>
    /\ summary = <<>>
    /\ result = <<>>

Next ==
    \/ StartRun
    \/ \E entries \in ParsedFeeds : FetchFeed(entries)
    \/ FetchFails
    \/ \E fail \in FailPoints \cup {"none"} : ProcessEntry(fail)
    \/ FeedDone
    \/ EndRun

Spec == Init /\ [][Next]_vars

SpecDedup == InitDedup /\ [][Next]_vars

\* a step of the running process: the interpreter runs the single thread on
\* (every call of the model returns or raises)
RunStep ==
    \/ \E entries \in ParsedFeeds : FetchFeed(entries)
    \/ FetchFails
    \/ \E fail \in FailPoints \cup {"none"} : ProcessEntry(fail)
    \/ FeedDone
    \/ EndRun

SpecLive == Init /\ [][Next]_vars /\ WF_vars(RunStep)

----------------------------------------------------------------------------
(* score_item on its own: inputs drawn from a vocabulary *)

Words == {
    <<"A","i","r","d","r","o","p">>,
    <<"T","E","S","T","N","E","T">>,
    <<"q","u","e","s","t">>,
    <<"e","a","r","n","e","s","t">>,
    <<"r","e">>,
    <<"w","a","r","d">>,
    <<"B","o","u","n","t","y">>,
    <<"g","r","a","n","t">>,
    <<"r","e","t","r","o","d","r","o","p">>,
    <<"c","a","m","p","a","i","g","n","e","r">>,
    <<"a","n","n","o","u","n","c","e","m","e","n","t">> }

AllKeywords == Join(<<keywords[1].word, keywords[2].word, keywords[3].word, keywords[4].word, keywords[5].word, keywords[6].word, keywords[7].word, keywords[8].word, keywords[9].word>>, <<" ">>)

Titles == { Join(ws, <<" ">>) : ws \in SeqsUpTo(Words, MaxWords) } \cup {AllKeywords}

Summaries == Words \cup { <<>>, <<"j","o","i","n"," ","t","h","e"," ","t","e","s","t","n","e","t"," ","q","u","e","s","t">> }

\* score, tags, reason = score_item(title, summary)
Score ==
    /\ result = <<>>
    /\ result' = <<score_item(title, summary)>>
    /\ UNCHANGED <<cfg, run, pc, feedIdx, todo, db, txn, csvExists, csv, trace, visited,
                   errlog, watch, count, wfail, title, summary>>

InitScore ==
    /\ cfg = NoNotify
    /\ run = 0
    /\ pc = "idle"
    /\ feedIdx = 1
    /\ todo = <<>>
    /\ db = {}
    /\ txn = {}
    /\ csvExists = FALSE
    /\ csv = <<>>
    /\ trace = <<>>
    /\ visited = <<>>
    /\ errlog = <<>>
    /\ watch = NoWatch
    /\ count = 0
    /\ wfail = FALSE
    /\ title \in Titles
    /\ summary \in Summaries
    /\ result = <<>>

NextScore == Score

SpecScore == InitScore /\ [][NextScore]_vars

----------------------------------------------------------------------------
(* C5: score_item *)

\* the keyword table as the specification gives it
ClaimTable == <<
    [word |-> <<"a","i","r","d","r","o","p">>, weight |-> 5, label |-> <<"a","i","r","d","r","o","p","+","5">>],
    [word |-> <<"t","e","s","t","n","e","t">>, weight |-> 4, label |-> <<"t","e","s","t","n","e","t","+","4">>],
    [word |-> <<"q","u","e","s","t">>, weight |-> 3, label |-> <<"q","u","e","s","t","+","3">>],
    [word |-> <<"r","e","w","a","r","d">>, weight |-> 2, label |-> <<"r","e","w","a","r","d","+","2">>],
    [word |-> <<"b","o","u","n","t","y">>, weight |-> 4, label |-> <<"b","o","u","n","t","y","+","4">>],
    [word |-> <<"g","r","a","n","t">>, weight |-> 2, label |-> <<"g","r","a","n","t","+","2">>],
    [word |-> <<"r","e","t","r","o","d","r","o","p">>, weight |-> 5, label |-> <<"r","e","t","r","o","d","r","o","p","+","5">>],
    [word |-> <<"c","a","m","p","a","i","g","n">>, weight |-> 2, label |-> <<"c","a","m","p","a","i","g","n","+","2">>],
    [word |-> <<"e","a","r","n">>, weight |-> 1, label |-> <<"e","a","r","n","+","1">>] >>

\* k occurs in text at some offset
OccursIn(k, text) ==
    \E off \in 0..Len(text) :
        /\ off + Len(k) <= Len(text)
        /\ \A j \in 1..Len(k) : text[off + j] = k[j]

\* the rows of ClaimTable from the i-th on whose keyword occurs in text, in table order
RECURSIVE Matched(_, _)
Matched(text, i) ==
    IF i > Len(ClaimTable) THEN <<>>
    ELSE IF OccursIn(ClaimTable[i].word, text)
         THEN <<ClaimTable[i]>> \o Matched(text, i + 1)
         ELSE Matched(text, i + 1)

RECURSIVE SumWeights(_)
SumWeights(rows) == IF rows = <<>> THEN 0 ELSE Head(rows).weight + SumWeights(Tail(rows))

RECURSIVE Labels(_)
Labels(rows) ==
    IF rows = <<>> THEN <<>>
    ELSE IF Len(rows) = 1 THEN Head(rows).label
    ELSE Head(rows).label \o <<";">> \o Labels(Tail(rows))

\* C5: score_item returns, for every title and summary, the table's keywords
\* that occur in lower(title + " " + summary) as tags in table order, the sum
\* of their weights (between 0 and 28) as score, and their "keyword+weight"
\* labels joined by ";" as reason; empty inputs give (0, [], "").
C5_ScoreItemCorrect ==
    result # <<>> =>
        LET hits == Matched(Lower(title \o <<" ">> \o summary), 1)
        IN  /\ result[1].tags = [i \in 1..Len(hits) |-> hits[i].word]
            /\ result[1].score = SumWeights(hits)
            /\ result[1].score \in 0..28
            /\ result[1].reason = Labels(hits)
            /\ (title = <<>> /\ summary = <<>>) =>
                   result[1] = [score |-> 0, tags |-> <<>>, reason |-> <<>>]

\* the example of the specification has been scored: three keywords, score 12
C5_Witness ==
    /\ title = <<"A","i","r","d","r","o","p"," ","a","n","n","o","u","n","c","e","m","e","n","t">>
    /\ summary = <<"j","o","i","n"," ","t","h","e"," ","t","e","s","t","n","e","t"," ","q","u","e","s","t">>
    /\ result # <<>>
    /\ result[1].score = 12
    /\ Len(result[1].tags) = 3
    /\ result[1].reason = <<"a","i","r","d","r","o","p","+","5",";","t","e","s","t","n","e","t","+","4",";","q","u","e","s","t","+","3">>

----------------------------------------------------------------------------
(* Observations on the two sinks *)

\* the rows of the table (committed) with fingerprint uid
RowsOf(uid) == { r \in db : r.id = uid }

\* the positions of the data lines of the CSV file with fingerprint uid
LinesOf(uid) == { i \in 1..Len(csv) : csv[i].kind = "row" /\ csv[i].item.id = uid }

\* the positions of the header rows in the CSV file
HeaderLines == { i \in 1..Len(csv) : csv[i] = Header }

WatchedId == hash_id(FEEDS[watch[1]], watch[2])

----------------------------------------------------------------------------
(* C1: dedup *)

\* C1 as stated: between runs, once the watched (source, link) pair has been
\* processed two or more times, the table holds exactly one row and the CSV
\* file exactly one data line with its fingerprint.
C1_ExactlyOneOfEach ==
    (pc = "idle" /\ count >= 2) =>
        /\ Cardinality(RowsOf(WatchedId)) = 1
        /\ Cardinality(LinesOf(WatchedId)) = 1

\* C1 amended: however often a pair is processed, the connection sees at
\* most one row and the CSV file holds at most one data line with any
\* fingerprint; once the watched pair has been processed, the table holds
\* exactly one row and the file exactly one line with its fingerprint unless
\* a database or CSV call made for that fingerprint has raised.
C1_AtMostOneOfEach ==
    /\ \A uid \in Fingerprints :
          /\ Cardinality({ r \in db \cup txn : r.id = uid }) <= 1
          /\ Cardinality(LinesOf(uid)) <= 1
    /\ (count >= 1 /\ ~wfail) =>
          /\ Cardinality(RowsOf(WatchedId)) = 1
          /\ Cardinality(LinesOf(WatchedId)) = 1

\* the watched pair has been processed twice with no call failing, in two
\* runs, and both sinks hold it once
C1_Witness ==
    /\ pc = "idle"
    /\ run = 2
    /\ count >= 2
    /\ ~wfail
    /\ Cardinality(RowsOf(WatchedId)) = 1
    /\ Cardinality(LinesOf(WatchedId)) = 1
    /\ \A r \in RowsOf(WatchedId) : r.fetched_at = 1

----------------------------------------------------------------------------
(* C4: CSV header *)

\* C4 as stated: a CSV file that holds rows holds the header row exactly
\* once, as its first row.
C4_HeaderOnceAndFirst ==
    csv # <<>> => (HeaderLines = {1})

----------------------------------------------------------------------------
(* C10: sink ordering *)

\* every fingerprint with a data line in the CSV file has a committed row,
\* and has one data line only
SinkOrder ==
    \A uid \in Fingerprints :
        /\ LinesOf(uid) # {} => RowsOf(uid) # {}
        /\ Cardinality(LinesOf(uid)) <= 1

\* a committed row whose CSV line is missing stays without one
MissingLineStaysMissing ==
    \A uid \in Fingerprints :
        (RowsOf(uid) # {} /\ LinesOf(uid) = {}) => (LinesOf(uid) = {})'

\* C10: with any database, CSV or notification call failing at any point,
\* every fingerprint in the CSV file is in the table and has one line only;
\* the sinks differ only by rows the CSV file lacks, and a line missing for a
\* committed row is never written later.
C10_SinkOrdering == []SinkOrder /\ [][MissingLineStaysMissing]_vars

\* a row committed in run 1 still has no CSV line when its entry is met
\* again, and skipped, in run 2
C10_Witness ==
    /\ run = 2
    /\ trace = <<"select", "continue">>
    /\ \E r \in db : r.fetched_at = 1 /\ LinesOf(r.id) = {}
    /\ csv # <<>>

----------------------------------------------------------------------------
(* Observations on one iteration of the entry loop *)

\* this step is an iteration of the entry loop, on entry Head(todo)
IterStep == pc = "entries" /\ todo # <<>> /\ todo' # todo

\* the fingerprint and the score of the entry the iteration is on
CurId == hash_id(FEEDS[feedIdx], Head(todo).link)
CurScore == Scored[Head(todo)].score

\* the connection holds a row with fingerprint uid
Known(uid) == \E r \in db \cup txn : r.id = uid

Has(calls, call) == \E i \in 1..Len(calls) : calls[i] = call
Raised(calls) == calls # <<>> /\ calls[Len(calls)] = "raise"
Posted(calls) == Has(calls, "post_telegram") \/ Has(calls, "post_discord")

TelegramReady == cfg.telegram.enabled /\ cfg.telegram.token /\ cfg.telegram.chat_id
DiscordReady == cfg.discord.enabled /\ cfg.discord.webhook

----------------------------------------------------------------------------
(* C2: notification threshold *)

\* C2 as stated: an iteration that processes a new entry to its end makes no
\* outbound notification call when the score is 2 or less and makes one when
\* the score is 3 or more.
C2_ThresholdPosts ==
    [][ (IterStep /\ ~Known(CurId) /\ ~Raised(trace')) =>
            /\ CurScore <= 2 => ~Posted(trace')
            /\ CurScore >= 3 => Posted(trace') ]_vars

\* C2 amended: a new entry with score 2 or less causes neither a call of
\* notify nor an outbound call; a new entry with score 3 or more whose row and
\* CSV line have been written causes a call of notify; notify makes an
\* outbound call only on a channel that is enabled and has its credentials,
\* and makes one when there is such a channel.
C2_ThresholdNotify ==
    [][ (IterStep /\ ~Known(CurId)) =>
            /\ CurScore <= 2 => (~Has(trace', "notify") /\ ~Posted(trace'))
            /\ (CurScore >= 3 /\ (\E r \in db' : r.id = CurId)
                              /\ (\E i \in 1..Len(csv') : csv'[i].kind = "row"
                                                          /\ csv'[i].item.id = CurId))
                  => Has(trace', "notify")
            /\ Has(trace', "post_telegram") => (TelegramReady /\ Has(trace', "notify"))
            /\ Has(trace', "post_discord") => (DiscordReady /\ Has(trace', "notify"))
            /\ (Has(trace', "notify") /\ (TelegramReady \/ DiscordReady)) => Posted(trace') ]_vars

\* an entry of score 3 has been written to both sinks and notified on both channels
C2_Witness ==
    /\ trace = <<"select", "save_to_db", "save_to_csv", "notify",
                 "post_telegram", "post_discord", "print">>
    /\ \E r \in db : r.score = 3 /\ r.fetched_at = run /\ LinesOf(r.id) # {}
    /\ \E r \in db : r.score = 2

----------------------------------------------------------------------------
(* C3: feed isolation *)

\* the feeds are visited once each in list order; what is logged is logged
\* for a visited feed; a run that has ended has visited every configured feed
VisitsInOrder ==
    /\ \A i \in 1..Len(visited) : visited[i] = i
    /\ pc = "feeds" => Len(visited) = feedIdx - 1
    /\ pc = "entries" => Len(visited) = feedIdx
    /\ \A i \in 1..Len(errlog) : errlog[i].feed <= Len(visited)
    /\ (pc = "idle" /\ run > 0) => Len(visited) = Len(FEEDS)

\* C3: the feeds are visited once each in list order, a fetch failure is
\* caught and logged for its feed, every run that has started reaches its
\* end, whichever fetches fail, and has then visited every configured feed.
C3_FeedIsolation == []VisitsInOrder /\ [](pc # "idle" => <>(pc = "idle"))

\* the fetch of the first feed failed and an entry of the second feed was
\* stored in the same run, which is at its end
C3_Witness ==
    /\ pc = "feeds"
    /\ feedIdx > Len(FEEDS)
    /\ errlog = <<[feed |-> 1, kind |-> "fetch", dropped |-> 0]>>
    /\ \E r \in db : r.source = FEEDS[2] /\ r.fetched_at = run

----------------------------------------------------------------------------
(* C6: skip leaves everything unchanged *)

\* C6: an iteration on an entry whose fingerprint the connection already
\* holds changes neither the table nor the open transaction nor the CSV file
\* and makes no call beyond the SELECT; every committed row is still there,
\* with the same fields and alone under its id, after every step.
C6_SkipChangesNothing ==
    [][ /\ (IterStep /\ Known(CurId)) =>
              /\ db' = db /\ txn' = txn /\ csv' = csv /\ csvExists' = csvExists
              /\ trace' \in { <<"select", "continue">>, <<"select", "raise">> }
        /\ \A r \in db : r \in db' /\ (\A q \in db' : q.id = r.id => q = r) ]_vars

\* in run 2 an entry is skipped whose fingerprint was stored in run 1 from
\* the other feed, with other content
C6_Witness ==
    /\ run = 2
    /\ pc = "entries"
    /\ trace = <<"select", "continue">>
    /\ \E r \in db : /\ r.fetched_at = 1
                     /\ r.id = hash_id(FEEDS[feedIdx], <<"a">>)
                     /\ r.source # FEEDS[feedIdx]

----------------------------------------------------------------------------
(* C7: channel independence *)

\* C7 as stated: with both channels enabled and their credentials set, a
\* call of notify attempts the Telegram call and the Discord call.
C7_BothChannelsCalled ==
    (TelegramReady /\ DiscordReady /\ Has(trace, "notify")) =>
        (Has(trace, "post_telegram") /\ Has(trace, "post_discord"))

\* the Telegram call of the latest iteration raised
TelegramRaised ==
    /\ Len(trace) >= 2
    /\ trace[Len(trace) - 1] = "post_telegram"
    /\ trace[Len(trace)] = "raise"

\* C7 amended: a call of notify attempts the Telegram call when Telegram is
\* enabled with credentials; it attempts the Discord call, Discord being
\* enabled with a webhook, exactly when the Telegram call has not raised: an
\* exception of the Telegram call leaves notify before the Discord block.
C7_DiscordUnlessTelegramRaised ==
    Has(trace, "notify") =>
        /\ TelegramReady <=> Has(trace, "post_telegram")
        /\ Has(trace, "post_discord") <=> (DiscordReady /\ ~TelegramRaised)

\* both channels set up, the Telegram call returned and the Discord call was made
C7_Witness ==
    /\ TelegramReady
    /\ DiscordReady
    /\ trace = <<"select", "save_to_db", "save_to_csv", "notify",
                 "post_telegram", "post_discord", "print">>

----------------------------------------------------------------------------
(* C8: dual write *)

\* C8 as stated: an iteration on a new entry attempts save_to_db and
\* save_to_csv both.
C8_BothWritesAttempted ==
    [][ (IterStep /\ ~Known(CurId) /\ trace' # <<"select", "raise">>) =>
            (Has(trace', "save_to_db") /\ Has(trace', "save_to_csv")) ]_vars

\* C8 amended: an iteration on a new entry attempts save_to_db, and attempts
\* save_to_csv exactly when save_to_db has returned, the row committed; when
\* save_to_db raises, save_to_csv is not attempted and the file is unchanged.
C8_CsvAfterDbReturned ==
    [][ (IterStep /\ ~Known(CurId) /\ trace' # <<"select", "raise">>) =>
            /\ Has(trace', "save_to_db")
            /\ Has(trace', "save_to_csv") <=> (\E r \in db' : r.id = CurId)
            /\ ~Has(trace', "save_to_csv") => (csv' = csv /\ csvExists' = csvExists) ]_vars

\* save_to_db raised on commit, the row is left in the open transaction and
\* the CSV file, which exists, was not touched
C8_Witness ==
    /\ trace = <<"select", "save_to_db", "raise">>
    /\ txn # {}
    /\ csvExists
    /\ \A r \in txn : LinesOf(r.id) = {} /\ RowsOf(r.id) = {}

----------------------------------------------------------------------------
(* C9: failures other than the fetch *)

\* C9 as stated: a failure inside an iteration is not caught, so once one
\* has happened in a feed no later feed is fetched in that run.
C9_EntryFailureEndsRun ==
    \A i \in 1..Len(errlog) :
        errlog[i].kind = "entry" => Len(visited) = errlog[i].feed

\* C9 amended: a failure while persisting or notifying an entry is caught by
\* the except clause of fetch_feed and printed; it ends that feed (no entry
\* of the feed is left to process, so a feed logs at most one failure), and
\* the run goes on to the next feed and visits every feed.
C9_EntryFailureEndsFeed ==
    /\ \A i \in 1..Len(errlog) : errlog[i].feed <= Len(visited)
    /\ \A i, j \in 1..Len(errlog) : i < j => errlog[i].feed < errlog[j].feed
    /\ (pc = "entries" /\ errlog # <<>> /\ errlog[Len(errlog)].feed = feedIdx) => todo = <<>>
    /\ (pc = "idle" /\ run > 0) => Len(visited) = Len(FEEDS)

\* an entry of the first feed failed with an entry left behind it, and the
\* second feed is being processed
C9_Witness ==
    /\ pc = "entries"
    /\ feedIdx = 2
    /\ todo # <<>>
    /\ errlog # <<>>
    /\ errlog[1].feed = 1
    /\ errlog[1].kind = "entry"
    /\ errlog[1].dropped >= 1

====
